---------------------------- MODULE Spec2Model ----------------------------
(***************************************************************************)
(* Model of nolan-enzo-will-glassdoor_scraper.js: the review scraper.      *)
(*                                                                         *)
(* JavaScript strings are sequences of one-character strings, so that      *)
(* includes / indexOf / substring / replace / trim / match work on         *)
(* characters as they do in the source.  Indices passed around are the     *)
(* 0-based indices of the source.  A value that may be null is a record    *)
(* [isNull, s].                                                            *)
(*                                                                         *)
(* The page of the browser is a DOM: a sequence of elements in document    *)
(* order, each with its tag, its parent (0 for none), its own text, its    *)
(* class attribute and its href attribute.                                 *)
(*                                                                         *)
(* Environment assumptions: the local file system is reliable (unlinkSync, *)
(* readFileSync and writeFileSync succeed); the steps before the entity    *)
(* loop (browser launch, homepage, login wait) complete.  Calls into the   *)
(* browser made while an entity is processed may throw.                    *)
(***************************************************************************)
EXTENDS Integers, Sequences, FiniteSets, TLC

(***************************************************************************)
(* Strings                                                                 *)
(***************************************************************************)
Whitespace == {" ", "\n", "\t"}
Digit == {"0", "1", "2", "3", "4", "5", "6", "7", "8", "9"}
Upper == {"A", "B", "C", "D", "E", "F", "G", "H", "I", "J", "K", "L", "M",
          "N", "O", "P", "Q", "R", "S", "T", "U", "V", "W", "X", "Y", "Z"}
Lower == {"a", "b", "c", "d", "e", "f", "g", "h", "i", "j", "k", "l", "m",
          "n", "o", "p", "q", "r", "s", "t", "u", "v", "w", "x", "y", "z"}

SetMin(S) == CHOOSE x \in S : \A y \in S : x <= y

\* A nullable string.
Null == [isNull |-> TRUE, s |-> <<>>]
Str(s) == [isNull |-> FALSE, s |-> s]
\* JavaScript truthiness of a nullable string: neither null nor "".
Truthy(v) == ~v.isNull /\ v.s # <<>>

\* text.indexOf(key, from): 0-based index of the first occurrence at or after
\* from, or -1.
indexOf(text, key, from) ==
    LET hits == {i \in from..(Len(text) - Len(key)) :
                    SubSeq(text, i + 1, i + Len(key)) = key}
    IN  IF hits = {} THEN -1 ELSE SetMin(hits)

\* text.includes(key)
includes(text, key) == indexOf(text, key, 0) # -1

\* text.substring(a, b) for 0 <= a <= b <= text.length
substring(text, a, b) == SubSeq(text, a + 1, b)

\* s.trim()
RECURSIVE trimStart(_)
trimStart(s) ==
    IF s # <<>> /\ Head(s) \in Whitespace THEN trimStart(Tail(s)) ELSE s

RECURSIVE trimEnd(_)
trimEnd(s) ==
    IF s # <<>> /\ s[Len(s)] \in Whitespace
    THEN trimEnd(SubSeq(s, 1, Len(s) - 1)) ELSE s

trim(s) == trimEnd(trimStart(s))

\* s.replace(/[:\-\.]/g, ''): every colon, hyphen and period is deleted.
PunctChars == {":", "-", "."}
IsNotPunct(c) == c \notin PunctChars
removePunct(s) == SelectSeq(s, IsNotPunct)

\* s.replace(/^[\s\-\|]+/, ''): the leading run of whitespace, '-' and '|'.
RECURSIVE stripLeadingSeparators(_)
stripLeadingSeparators(s) ==
    IF s # <<>> /\ Head(s) \in (Whitespace \cup {"-", "|"})
    THEN stripLeadingSeparators(Tail(s)) ELSE s

\* s.replace(sub, ''): the first occurrence of sub is deleted.
replaceFirst(s, sub) ==
    LET i == indexOf(s, sub, 0)
    IN  IF i = -1 THEN s
        ELSE SubSeq(s, 1, i) \o SubSeq(s, i + Len(sub) + 1, Len(s))

\* s.split('\n')
RECURSIVE splitLines(_)
splitLines(s) ==
    LET i == indexOf(s, <<"\n">>, 0)
    IN  IF i = -1 THEN <<s>>
        ELSE <<SubSeq(s, 1, i)>> \o splitLines(SubSeq(s, i + 2, Len(s)))

\* text.match(/^[0-5]\.\d/): the three matched characters, or null.
ratingMatch(text) ==
    IF /\ Len(text) >= 3
       /\ text[1] \in {"0", "1", "2", "3", "4", "5"}
       /\ text[2] = "."
       /\ text[3] \in Digit
    THEN Str(SubSeq(text, 1, 3)) ELSE Null

\* Length of the maximal run of characters of set S in text from 1-based p.
RECURSIVE runLength(_, _, _)
runLength(text, p, S) ==
    IF p <= Len(text) /\ text[p] \in S THEN 1 + runLength(text, p + 1, S) ELSE 0

\* Length of the match of /[A-Z][a-z]{2,9}\s\d{1,2},\s\d{4}/ that starts at
\* 1-based position p of text, or 0 when there is none.
dateMatchAt(text, p) ==
    LET n  == runLength(text, p + 1, Lower)
        q  == p + 1 + n          \* the \s after the month
        d  == q + 1              \* first digit of the day
        at(k) == IF k <= Len(text) THEN text[k] ELSE ""
        dayLen == IF at(d + 1) = "," THEN 1
                  ELSE IF at(d + 1) \in Digit /\ at(d + 2) = "," THEN 2 ELSE 0
        c  == d + dayLen         \* the comma
        y  == c + 2              \* first digit of the year
    IN  IF /\ at(p) \in Upper
           /\ n >= 2 /\ n <= 9
           /\ at(q) \in Whitespace
           /\ at(d) \in Digit
           /\ dayLen > 0
           /\ at(c + 1) \in Whitespace
           /\ \A k \in y..(y + 3) : at(k) \in Digit
        THEN (y + 4) - p ELSE 0

\* text.match(/([A-Z][a-z]{2,9}\s\d{1,2},\s\d{4})/): the leftmost match.
dateMatch(text) ==
    LET starts == {p \in 1..Len(text) : dateMatchAt(text, p) > 0}
    IN  IF starts = {} THEN Null
        ELSE LET p == SetMin(starts)
             IN  Str(SubSeq(text, p, p + dateMatchAt(text, p) - 1))

(***************************************************************************)
(* String literals of the source                                           *)
(***************************************************************************)
kwPros == <<"P","r","o","s">>
kwCons == <<"C","o","n","s">>
kwAdvice == <<"A","d","v","i","c","e"," ","t","o"," ","M","a","n","a","g","e","m","e","n","t">>
kwHelpful == <<"H","e","l","p","f","u","l">>
kwStar == <<"S","t","a","r">>
kwNoiseIn == <<"(","i","n"," ">>
kwNoiseReviews == <<"r","e","v","i","e","w","s",")">>
clsRatingNumber == <<"r","a","t","i","n","g","N","u","m","b","e","r">>
clsRating == <<"r","a","t","i","n","g">>
hrefEmployeeReview == <<"/","R","e","v","i","e","w","s","/","E","m","p","l","o","y","e","e","-","R","e","v","i","e","w">>

MIN_TEXT_LENGTH == 50
MAX_FALLBACK_LENGTH == 2000

(***************************************************************************)
(* DOM                                                                     *)
(***************************************************************************)
\* An element; dom[e].parent < e, and the sequence is in document order.
Element(tag, parent, own, cls, href) ==
    [tag |-> tag, parent |-> parent, own |-> own, cls |-> cls, href |-> href]

RECURSIVE isAncestor(_, _, _)
\* a is a proper ancestor of d.
isAncestor(dom, a, d) ==
    /\ d # 0
    /\ dom[d].parent # 0
    /\ (dom[d].parent = a \/ isAncestor(dom, a, dom[d].parent))

\* other.contains(d): a node contains itself and its descendants.
contains(dom, other, d) == other = d \/ isAncestor(dom, other, d)

RECURSIVE textFrom(_, _, _)
textFrom(dom, e, i) ==
    IF i > Len(dom) THEN <<>>
    ELSE (IF contains(dom, e, i) THEN dom[i].own ELSE <<>>)
         \o textFrom(dom, e, i + 1)

\* e.innerText: the text of e and of its descendants, in document order.
innerText(dom, e) == textFrom(dom, e, e)

\* el.matches(selector), for the selectors the source uses.
matches(el, sel) ==
    CASE sel = "li" -> el.tag = "li"
      [] sel = "div" -> el.tag = "div"
      [] sel = ".ratingNumber" -> el.cls = clsRatingNumber
      [] sel = "span[class*=rating]" ->
            el.tag = "span" /\ includes(el.cls, clsRating)
      [] sel = "a[href*=/Reviews/Employee-Review]" ->
            el.tag = "a" /\ ~el.href.isNull
                         /\ includes(el.href.s, hrefEmployeeReview)
      [] OTHER -> FALSE

\* document.querySelectorAll(sel): the matching elements in document order.
querySelectorAll(dom, sel) ==
    LET idx == [i \in 1..Len(dom) |-> i]
        ok(i) == matches(dom[i], sel)
    IN  SelectSeq(idx, ok)

\* card.querySelector(sel): the first matching descendant, or 0 for null.
querySelector(dom, card, sel) ==
    LET hits == {d \in 1..Len(dom) :
                    isAncestor(dom, card, d) /\ matches(dom[d], sel)}
    IN  IF hits = {} THEN 0 ELSE SetMin(hits)


(***************************************************************************)
(* parseReviewCard and the page.$$eval callback                            *)
(***************************************************************************)
RECURSIVE nearestEnd(_, _, _, _)
\* The loop of getSection over endKeywords: the smallest index of an end
\* keyword at or after startIndex, or endIndex when there is none below it.
nearestEnd(text, startIndex, endKeywords, endIndex) ==
    IF endKeywords = <<>> THEN endIndex
    ELSE LET idx == indexOf(text, Head(endKeywords), startIndex)
         IN  nearestEnd(text, startIndex, Tail(endKeywords),
                        IF idx # -1 /\ idx < endIndex THEN idx ELSE endIndex)

\* A plausible slip: the end keyword is searched from the start of the text.
getSectionFromZero(text, startKeyword, endKeywords) ==
    IF ~includes(text, startKeyword) THEN Null
    ELSE LET startIndex == indexOf(text, startKeyword, 0) + Len(startKeyword)
             endIndex == nearestEnd(text, 0, endKeywords, Len(text))
         IN  Str(trim(removePunct(
                 IF endIndex >= startIndex
                 THEN substring(text, startIndex, endIndex)
                 ELSE substring(text, endIndex, startIndex))))

\* getSection of parseReviewCard, with the card's text as a parameter.
getSection(text, startKeyword, endKeywords) ==
    IF ~includes(text, startKeyword) THEN Null
    ELSE LET startIndex == indexOf(text, startKeyword, 0) + Len(startKeyword)
             endIndex == nearestEnd(text, startIndex, endKeywords, Len(text))
         IN  Str(trim(removePunct(substring(text, startIndex, endIndex))))

\* A plausible slip: the length test of FILTER GARBAGE is left out.
isGarbageNoLength(dom, card) ==
    LET text == innerText(dom, card)
    IN  \/ includes(text, kwNoiseIn) /\ includes(text, kwNoiseReviews)
        \/ /\ ~includes(text, kwStar)
           /\ querySelector(dom, card, ".ratingNumber") = 0
           /\ querySelector(dom, card, "span[class*=rating]") = 0

\* The three FILTER GARBAGE tests: TRUE when the card is rejected.
isGarbage(dom, card) ==
    LET text == innerText(dom, card)
    IN  \/ includes(text, kwNoiseIn) /\ includes(text, kwNoiseReviews)
        \/ Len(text) < MIN_TEXT_LENGTH
        \/ /\ ~includes(text, kwStar)
           /\ querySelector(dom, card, ".ratingNumber") = 0
           /\ querySelector(dom, card, "span[class*=rating]") = 0

\* "Try to find rating": the rating element's text, else the leading match.
extractRating(dom, card) ==
    LET text == innerText(dom, card)
        byClass == querySelector(dom, card, ".ratingNumber")
        ratingEl == IF byClass # 0 THEN byClass
                    ELSE querySelector(dom, card, "span[class*=rating]")
        fromEl == IF ratingEl # 0 THEN Str(trim(innerText(dom, ratingEl)))
                  ELSE Null
    IN  IF ~Truthy(fromEl)
        THEN (IF ~ratingMatch(text).isNull THEN ratingMatch(text) ELSE fromEl)
        ELSE fromEl

extractTitle(dom, card) ==
    LET link == querySelector(dom, card, "a[href*=/Reviews/Employee-Review]")
    IN  IF link # 0 THEN Str(trim(innerText(dom, link))) ELSE Null

\* "Extract Job Title / Status": the date's line without the date.
extractJobTitle(text, date) ==
    IF ~Truthy(date) THEN Null
    ELSE LET lines == splitLines(text)
             withDate == {k \in 1..Len(lines) : includes(lines[k], date.s)}
         IN  IF withDate = {} THEN Null
             ELSE LET dateLine == lines[SetMin(withDate)]
                  IN  IF dateLine = <<>> THEN Null
                      ELSE Str(trim(stripLeadingSeparators(
                                        replaceFirst(dateLine, date.s))))

NoCard ==
    [isNull |-> TRUE, rating |-> Null, date |-> Null, title |-> Null,
     job_title |-> Null, pros |-> Null, cons |-> Null, advice |-> Null]

\* A plausible slip: a card is kept as soon as it has a rating.
isValidReviewRatingOnly(rating, pros, cons, title) == Truthy(rating)

\* "Only return if valid review"
isValidReview(rating, pros, cons, title) ==
    Truthy(rating) /\ (Truthy(pros) \/ Truthy(cons) \/ Truthy(title))

\* parseReviewCard(card): NoCard for null, else the extracted fields.
parseReviewCard(dom, card) ==
    IF isGarbage(dom, card) THEN NoCard
    ELSE LET text == innerText(dom, card)
             rating == extractRating(dom, card)
             date == dateMatch(text)
             title == extractTitle(dom, card)
             jobTitle == extractJobTitle(text, date)
             pros == getSection(text, kwPros, <<kwCons, kwAdvice, kwHelpful>>)
             cons == getSection(text, kwCons, <<kwAdvice, kwHelpful>>)
             advice == getSection(text, kwAdvice, <<kwHelpful>>)
         IN  IF isValidReview(rating, pros, cons, title)
             THEN [isNull |-> FALSE, rating |-> rating, date |-> date,
                   title |-> title, job_title |-> jobTitle, pros |-> pros,
                   cons |-> cons, advice |-> advice]
             ELSE NoCard

\* r => r !== null
isCard(r) == ~r.isNull

\* candidates.map(parseReviewCard).filter(r => r !== null)
mapParse(dom, candidates) ==
    SelectSeq([k \in 1..Len(candidates) |-> parseReviewCard(dom, candidates[k])],
              isCard)

\* divs.filter(d => includes('Pros') && includes('Cons') && length < 2000)
isReviewDiv(dom, d) ==
    LET text == innerText(dom, d)
    IN  includes(text, kwPros) /\ includes(text, kwCons)
        /\ Len(text) < MAX_FALLBACK_LENGTH

reviewDivs(dom) ==
    LET divs == querySelectorAll(dom, "div")
        ok(d) == isReviewDiv(dom, d)
    IN  SelectSeq(divs, ok)

\* A plausible slip: the test "other !== d" is left out.
uniqueDivsNoSelfTest(dom) ==
    LET rd == reviewDivs(dom)
        ok(d) == ~\E k \in 1..Len(rd) : contains(dom, rd[k], d)
    IN  SelectSeq(rd, ok)

\* reviewDivs.filter(d => !reviewDivs.some(other => other !== d && other.contains(d)))
uniqueDivs(dom) ==
    LET rd == reviewDivs(dom)
        ok(d) == ~\E k \in 1..Len(rd) : rd[k] # d /\ contains(dom, rd[k], d)
    IN  SelectSeq(rd, ok)

\* The callback of page.$$eval: list items first, fallback to review divs.
evalReviews(dom) ==
    LET results == mapParse(dom, querySelectorAll(dom, "li"))
    IN  IF Len(results) = 0 THEN mapParse(dom, uniqueDivs(dom)) ELSE results


(***************************************************************************)
(* Configuration                                                           *)
(***************************************************************************)
MAX_PAGES_PER_COMPANY == 30

TARGET_COMPANIES ==
    <<<<"E","n","b","r","i","d","g","e">>,
      <<"C","a","n","a","d","i","a","n"," ","N","a","t","u","r","a","l"," ","R","e","s","o","u","r","c","e","s">>,
      <<"S","u","n","c","o","r"," ","E","n","e","r","g","y">>,
      <<"T","C"," ","E","n","e","r","g","y">>,
      <<"C","e","n","o","v","u","s"," ","E","n","e","r","g","y">>,
      <<"I","m","p","e","r","i","a","l"," ","O","i","l">>,
      <<"P","e","m","b","i","n","a"," ","P","i","p","e","l","i","n","e">>,
      <<"T","o","u","r","m","a","l","i","n","e"," ","O","i","l">>,
      <<"A","R","C"," ","R","e","s","o","u","r","c","e","s">>,
      <<"M","E","G"," ","E","n","e","r","g","y">>,
      <<"W","h","i","t","e","c","a","p"," ","R","e","s","o","u","r","c","e","s">>,
      <<"S","t","r","a","t","h","c","o","n","a"," ","R","e","s","o","u","r","c","e","s">>,
      <<"K","e","y","e","r","a">>,
      <<"G","i","b","s","o","n"," ","E","n","e","r","g","y">>,
      <<"V","e","r","m","i","l","i","o","n"," ","E","n","e","r","g","y">>,
      <<"B","a","y","t","e","x"," ","E","n","e","r","g","y">>,
      <<"P","a","r","a","m","o","u","n","t"," ","R","e","s","o","u","r","c","e","s">>,
      <<"P","e","y","t","o"," ","E","x","p","l","o","r","a","t","i","o","n"," ","&"," ","D","e","v","e","l","o","p","m","e","n","t">>,
      <<"A","t","h","a","b","a","s","c","a"," ","O","i","l">>,
      <<"N","u","V","i","s","t","a"," ","E","n","e","r","g","y">>>>

\* The model runs the entity loop over the first NumCompanies targets.
NumCompanies == 2
Targets == SubSeq(TARGET_COMPANIES, 1, NumCompanies)

(***************************************************************************)
(* The data file: JSON.stringify / JSON.parse and saveData                 *)
(***************************************************************************)
\* The text of the file is a sequence of JSON tokens [k, v]: punctuation,
\* a key, the literal null, or a string literal with its characters.
Tok(k) == [k |-> k, v |-> <<>>]
StrTok(s) == [k |-> "string", v |-> s]
KeyToks == <<"company:", "rating:", "date:", "title:", "job_title:", "pros:", "cons:", "advice:">>

\* JSON of a nullable string.
jsonValue(v) == IF v.isNull THEN Tok("null") ELSE StrTok(v.s)

\* JSON of one review object, its keys in insertion order.
jsonObject(r) ==
    <<Tok("{"),
      Tok("company:"), StrTok(r.company), Tok(","),
      Tok("rating:"), jsonValue(r.rating), Tok(","),
      Tok("date:"), jsonValue(r.date), Tok(","),
      Tok("title:"), jsonValue(r.title), Tok(","),
      Tok("job_title:"), jsonValue(r.job_title), Tok(","),
      Tok("pros:"), jsonValue(r.pros), Tok(","),
      Tok("cons:"), jsonValue(r.cons), Tok(","),
      Tok("advice:"), jsonValue(r.advice),
      Tok("}")>>
ObjectTokens == 3 * Len(KeyToks) + 1

RECURSIVE jsonElements(_)
jsonElements(rs) ==
    IF rs = <<>> THEN <<>>
    ELSE jsonObject(Head(rs))
         \o (IF Len(rs) > 1 THEN <<Tok(",")>> ELSE <<>>)
         \o jsonElements(Tail(rs))

\* JSON.stringify(combined, null, 2)
stringify(rs) == <<Tok("[")>> \o jsonElements(rs) \o <<Tok("]")>>

\* The value of a JSON token that stands for a nullable string.
isValueTok(t) == t.k \in {"null", "string"}
valueOf(t) == IF t.k = "null" THEN Null ELSE Str(t.v)

\* One object read back from its ObjectTokens tokens: [ok, r].
parseObject(ts) ==
    LET keyOk(n) == ts[3 * n - 1] = Tok(KeyToks[n]) /\ isValueTok(ts[3 * n])
        sepOk(n) == ts[3 * n + 1] = Tok(IF n = Len(KeyToks) THEN "}" ELSE ",")
    IN  IF /\ Len(ts) = ObjectTokens
           /\ ts[1] = Tok("{")
           /\ \A n \in 1..Len(KeyToks) : keyOk(n) /\ sepOk(n)
           /\ ts[3].k = "string"
        THEN [ok |-> TRUE,
              r |-> [company |-> ts[3].v, rating |-> valueOf(ts[6]),
                     date |-> valueOf(ts[9]), title |-> valueOf(ts[12]),
                     job_title |-> valueOf(ts[15]), pros |-> valueOf(ts[18]),
                     cons |-> valueOf(ts[21]), advice |-> valueOf(ts[24])]]
        ELSE [ok |-> FALSE, r |-> <<>>]

RECURSIVE parseElements(_)
\* The objects between the brackets: [ok, rs].
parseElements(ts) ==
    IF Len(ts) < ObjectTokens THEN [ok |-> FALSE, rs |-> <<>>]
    ELSE LET first == parseObject(SubSeq(ts, 1, ObjectTokens))
             rest == SubSeq(ts, ObjectTokens + 1, Len(ts))
         IN  IF ~first.ok THEN [ok |-> FALSE, rs |-> <<>>]
             ELSE IF rest = <<>> THEN [ok |-> TRUE, rs |-> <<first.r>>]
             ELSE IF Head(rest) # Tok(",") THEN [ok |-> FALSE, rs |-> <<>>]
             ELSE LET more == parseElements(Tail(rest))
                  IN  [ok |-> more.ok,
                       rs |-> IF more.ok THEN <<first.r>> \o more.rs ELSE <<>>]

\* JSON.parse(text): [ok, rs]; ok is FALSE when JSON.parse throws.
parse(ts) ==
    IF Len(ts) < 2 \/ Head(ts) # Tok("[") \/ ts[Len(ts)] # Tok("]")
    THEN [ok |-> FALSE, rs |-> <<>>]
    ELSE IF Len(ts) = 2 THEN [ok |-> TRUE, rs |-> <<>>]
    ELSE parseElements(SubSeq(ts, 2, Len(ts) - 1))

\* The file OUTPUT_FILE: whether it exists, and its text.
NoFile == [exists |-> FALSE, text |-> <<>>]
FileOf(text) == [exists |-> TRUE, text |-> text]

\* The array the file holds, as saveData reads it: [] when the file is
\* missing or JSON.parse throws.
readStore(f) ==
    IF f.exists /\ parse(f.text).ok THEN parse(f.text).rs ELSE <<>>

\* A plausible slip: the file is rewritten with the new batch alone.
saveDataOverwrite(f, newData) == FileOf(stringify(newData))

\* saveData(newData): the file after the call.
saveData(f, newData) ==
    LET existing == readStore(f)
        combined == existing \o newData
    IN  FileOf(stringify(combined))

\* reviews.map(r => ({ company: companyName, ...r }))
\* A plausible slip: every record is tagged with the first entity of the list.
cleanReviewFirstTarget(companyName, r) ==
    [company |-> TARGET_COMPANIES[1], rating |-> r.rating, date |-> r.date,
     title |-> r.title, job_title |-> r.job_title, pros |-> r.pros,
     cons |-> r.cons, advice |-> r.advice]

\* r => ({ company: companyName, ...r })
cleanReview(companyName, r) ==
    [company |-> companyName, rating |-> r.rating, date |-> r.date,
     title |-> r.title, job_title |-> r.job_title, pros |-> r.pros,
     cons |-> r.cons, advice |-> r.advice]

cleanReviews(companyName, reviews) ==
    [k \in 1..Len(reviews) |-> cleanReview(companyName, reviews[k])]


(***************************************************************************)
(* Sample page content                                                     *)
(***************************************************************************)
txtReview == <<"4",".","0"," ","S","t","a","r","\n","N","o","v"," ","2","8",","," ","2","0","2","5"," ","-"," ","C","u","r","r","e","n","t"," ","E","m","p","l","o","y","e","e"," ","-"," ","E","n","g","i","n","e","e","r","\n","P","r","o","s",":"," ","g","o","o","d"," ","p","a","y","."," ","C","o","n","s",":"," ","l","o","n","g"," ","h","o","u","r","s"," ","H","e","l","p","f","u","l"," ","(","3",")">>
txtNoise == <<"3",".","9"," ","S","t","a","r"," ","o","v","e","r","a","l","l"," ","(","i","n"," ","1","2","0"," ","r","e","v","i","e","w","s",")"," ","P","r","o","s",":"," ","m","a","n","y"," ","p","e","r","k","s"," ","C","o","n","s",":"," ","f","e","w"," ","r","a","i","s","e","s">>
txtShort == <<"H","o","m","e">>
txtRatingOnly == <<"4",".","5"," ","S","t","a","r"," ","F","o","r","m","e","r"," ","E","m","p","l","o","y","e","e",","," ","m","o","r","e"," ","t","h","a","n"," ","t","h","r","e","e"," ","y","e","a","r","s"," ","i","n"," ","t","h","e"," ","f","i","e","l","d">>
txtDivReview == <<" ","S","t","a","r"," ","P","r","o","s",":"," ","g","r","e","a","t"," ","c","o","-","w","o","r","k","e","r","s"," ","C","o","n","s",":"," ","r","e","m","o","t","e"," ","s","i","t","e","s"," ","A","d","v","i","c","e"," ","t","o"," ","M","a","n","a","g","e","m","e","n","t"," ","h","i","r","e"," ","m","o","r","e">>
txtRating5 == <<"5",".","0">>
txtTitle == <<"G","o","o","d"," ","p","l","a","c","e"," ","t","o"," ","w","o","r","k">>
txtEmpty == <<"N","o"," ","r","e","v","i","e","w","s"," ","m","a","t","c","h"," ","y","o","u","r"," ","s","e","a","r","c","h">>
hrefReview1 == <<"/","R","e","v","i","e","w","s","/","E","m","p","l","o","y","e","e","-","R","e","v","i","e","w","-","E","n","b","r","i","d","g","e","-","R","V","W","1",".","h","t","m">>
hrefLogo == <<"h","t","t","p","s",":","/","/","w","w","w",".","g","l","a","s","s","d","o","o","r",".","c","a","/","O","v","e","r","v","i","e","w","/","W","o","r","k","i","n","g","-","a","t","-","E","n","b","r","i","d","g","e","-","P","i","p","e","l","i","n","e","s","-","E","I","_","I","E","2",".","h","t","m">>
hrefOverview == <<"/","O","v","e","r","v","i","e","w","/","W","o","r","k","i","n","g","-","a","t","-","E","n","b","r","i","d","g","e","-","E","I","_","I","E","1",".","h","t","m">>
hrefReviewsE == <<"/","R","e","v","i","e","w","s","/","E","n","b","r","i","d","g","e","-","R","e","v","i","e","w","s","-","E","1",".","h","t","m">>
hrefIndex == <<"/","R","e","v","i","e","w","s","/","i","n","d","e","x",".","h","t","m">>
urlOrigin == <<"h","t","t","p","s",":","/","/","w","w","w",".","g","l","a","s","s","d","o","o","r",".","c","a">>
kwReviews == <<"R","e","v","i","e","w","s">>
kwOverview == <<"O","v","e","r","v","i","e","w">>
kwReviewsIndex == <<"R","e","v","i","e","w","s","/","i","n","d","e","x",".","h","t","m">>
kwReviewsE == <<"R","e","v","i","e","w","s","-","E">>
kwDisabled == <<"d","i","s","a","b","l","e","d">>
clsNext == <<"n","e","x","t","B","u","t","t","o","n">>
clsNextDisabled == <<"n","e","x","t","B","u","t","t","o","n"," ","d","i","s","a","b","l","e","d">>

\* A list page: a review, the aggregate-count banner, a navigation item and
\* a card with a rating but no text section and no title.
pageList ==
    <<Element("li", 0, txtReview, <<>>, Null),
      Element("li", 0, txtNoise, <<>>, Null),
      Element("li", 0, txtShort, <<>>, Null),
      Element("li", 0, txtRatingOnly, <<>>, Null)>>

\* A page without list items: a review block nested in a wrapper block.
pageBlocks ==
    <<Element("div", 0, <<>>, <<>>, Null),
      Element("div", 1, <<>>, <<>>, Null),
      Element("span", 2, txtRating5, clsRatingNumber, Null),
      Element("a", 2, txtTitle, <<>>, Str(hrefReview1)),
      Element("div", 2, txtDivReview, <<>>, Null)>>

\* A page that holds no review.
pageEmpty == <<Element("div", 0, txtEmpty, <<>>, Null)>>

PageSamples == {pageList, pageBlocks, pageEmpty}


(***************************************************************************)
(* State                                                                   *)
(***************************************************************************)
VARIABLES
    pc,         \* where the run is: "reset", "launch", "loop", "results",
                \* "resolved", "scrape", "paginate", "finished", "crashed"
    file,       \* OUTPUT_FILE
    saved,      \* history: the batches passed to saveData, in call order
    ci,         \* number of the entity of TARGET_COMPANIES being processed
    i,          \* the page loop's counter
    located,    \* how the search stage of entity ci ended
    strategy,   \* which result strategy set targetUrl
    links,      \* history: what the three result locators showed, if evaluated
    targetUrl,  \* the search stage's targetUrl
    url,        \* page.url()
    pages,      \* history: pages scraped for entity ci
    ctl,        \* history: the "next" control as last observed
    ctlPage,    \* history: the page on which ctl was observed, 0 for none
    lastClick,  \* history: the last page on which the control was clicked
    dom,        \* extraction on its own: the page content given to it
    reviews,    \* extraction on its own: the result of the callback
    candidates, \* extraction on its own: the fallback candidate set
    sections    \* extraction on its own: the results of getSection

vars == <<pc, file, saved, ci, i, located, strategy, links, targetUrl, url,
          pages, ctl, ctlPage, lastClick, dom, reviews, candidates, sections>>

fileVars == <<file, saved>>
entityVars == <<ci, i, located, strategy, links, targetUrl, url>>
pageVars == <<pages, ctl, ctlPage, lastClick>>
evalVars == <<dom, reviews, candidates>>

\* The "next" control as the pagination step reads it.
Control(count, visible, disabled, cls) ==
    [count |-> count, visible |-> visible, disabled |-> disabled, cls |-> cls]
NoControl == Control(0, FALSE, FALSE, Null)

\* A link of the search result page: whether it is visible, and its href.
Link(visible, href) == [visible |-> visible, href |-> href]

\* The result locators have not been evaluated.
NoLinks == <<>>

\* The records of the store.
store == readStore(file)

RECURSIVE Flatten(_)
Flatten(batches) ==
    IF batches = <<>> THEN <<>> ELSE Head(batches) \o Flatten(Tail(batches))

\* The model lets a page yield records while the store holds fewer than
\* MaxStore of them.
MaxStore == 2

\* What an earlier run may have left in the file.
oldRecord ==
    [company |-> TARGET_COMPANIES[1], rating |-> Str(txtRating5), date |-> Null,
     title |-> Str(txtTitle), job_title |-> Null, pros |-> Null, cons |-> Null,
     advice |-> Null]

OldFiles ==
    {NoFile, FileOf(<<>>),
     FileOf(stringify(<<oldRecord>>))}

InitRun ==
    /\ file \in OldFiles
    /\ saved = <<>>
    /\ ci = 0 /\ i = 0
    /\ located = "none" /\ strategy = "none" /\ links = NoLinks
    /\ targetUrl = Null /\ url = Null
    /\ pages = 0 /\ ctl = NoControl /\ ctlPage = 0 /\ lastClick = 0
    /\ dom = <<>> /\ reviews = <<>> /\ candidates = <<>>
    /\ sections = <<>>

Init == pc = "reset" /\ InitRun

(***************************************************************************)
(* Module start and the steps before the entity loop                       *)
(***************************************************************************)
\* A plausible slip: the data file is left as the earlier run wrote it.
ResetDataFileSkipped ==
    /\ pc = "reset"
    /\ pc' = "launch"
    /\ UNCHANGED <<file, saved, entityVars, pageVars, evalVars, sections>>

\* RESET DATA FILE: if the file exists it is unlinked.
ResetDataFile ==
    /\ pc = "reset"
    /\ file' = IF file.exists THEN NoFile ELSE file
    /\ pc' = "launch"
    /\ UNCHANGED <<saved, entityVars, pageVars, evalVars, sections>>

\* scrapeGlassdoor up to the scraping loop: launch, homepage, login wait.
Launch ==
    /\ pc = "launch"
    /\ pc' = "loop"
    /\ url' = Str(urlOrigin)
    /\ UNCHANGED <<file, saved, ci, i, located, strategy, links, targetUrl,
                   pageVars, evalVars, sections>>


(***************************************************************************)
(* The search stage of one entity                                          *)
(***************************************************************************)
\* "Ensure URL is absolute": a leading '/' gets the site's origin.
absoluteUrl(href) == IF Head(href) = "/" THEN urlOrigin \o href ELSE href

\* A plausible slip: the first-token link is tried before the full-name link.
selectResultPartialFirst(exactLink, partialLink, logoLink) ==
    IF partialLink.visible
    THEN [strategy |-> "partial", href |-> partialLink.href]
    ELSE IF exactLink.visible
    THEN [strategy |-> "exact", href |-> exactLink.href]
    ELSE IF logoLink.visible THEN [strategy |-> "logo", href |-> logoLink.href]
    ELSE [strategy |-> "none", href |-> Null]

\* The if / else-if chain over the three result strategies: [strategy, href].
selectResult(exactLink, partialLink, logoLink) ==
    IF exactLink.visible THEN [strategy |-> "exact", href |-> exactLink.href]
    ELSE IF partialLink.visible
    THEN [strategy |-> "partial", href |-> partialLink.href]
    ELSE IF logoLink.visible THEN [strategy |-> "logo", href |-> logoLink.href]
    ELSE [strategy |-> "none", href |-> Null]

\* What the result page may show for each strategy's locator: no visible
\* match, a visible match without href, or a visible match with an href.
ExactLinks == {Link(FALSE, Null), Link(TRUE, Null), Link(TRUE, Str(hrefReviewsE))}
PartialLinks == {Link(FALSE, Null), Link(TRUE, Null), Link(TRUE, Str(hrefOverview))}
LogoLinks == {Link(FALSE, Null), Link(TRUE, Null), Link(TRUE, Str(hrefLogo))}

\* The entity's per-page history starts afresh.
BeginEntity ==
    /\ ci' = ci + 1
    /\ i' = 0
    /\ pages' = 0 /\ ctl' = NoControl /\ ctlPage' = 0 /\ lastClick' = 0

\* Steps A and B of the loop body: open the search page, type the name of
\* the next entity and submit.
Search ==
    /\ pc = "loop" /\ ci < NumCompanies
    /\ BeginEntity
    /\ \/ \* a call throws; the stage's catch logs and continues
          /\ located' = "searchFailed" /\ pc' = "loop"
       \/ \* "Could not find search input. Skipping."
          /\ located' = "noInput" /\ pc' = "loop"
       \/ /\ located' = "searching" /\ pc' = "results"
    /\ strategy' = "none" /\ links' = NoLinks /\ targetUrl' = Null
    /\ url' = Str(urlOrigin \o <<"/">> \o kwReviewsIndex)
    /\ UNCHANGED <<file, saved, evalVars, sections>>

\* RESULT SELECTION: pick a result by the three strategies and open it.
SelectResult ==
    /\ pc = "results"
    /\ \/ \* page.goto or the screenshot throws; the stage's catch continues
          /\ located' = "searchFailed" /\ pc' = "loop"
          /\ UNCHANGED <<strategy, links, targetUrl, url>>
       \/ \* "Link finding failed": targetUrl stays null
          /\ located' = "unresolved" /\ pc' = "loop"
          /\ strategy' = "failed"
          /\ UNCHANGED <<links, targetUrl, url>>
       \/ \E exactLink \in ExactLinks, partialLink \in PartialLinks,
             logoLink \in LogoLinks :
             LET sel == selectResult(exactLink, partialLink, logoLink)
             IN  /\ strategy' = sel.strategy
                 /\ links' = <<exactLink, partialLink, logoLink>>
                 /\ IF Truthy(sel.href)
                    THEN /\ targetUrl' = Str(absoluteUrl(sel.href.s))
                         /\ url' = targetUrl'
                         /\ located' = "resolved" /\ pc' = "resolved"
                    ELSE \* "Could not identify a result": skip
                         /\ targetUrl' = sel.href
                         /\ located' = "unresolved" /\ pc' = "loop"
                         /\ UNCHANGED url
    /\ UNCHANGED <<file, saved, ci, i, pageVars, evalVars, sections>>

RECURSIVE firstReviewLink(_)
\* The loop over reviewLinks: the first href that is a company's listing.
firstReviewLink(hrefs) ==
    IF hrefs = <<>> THEN Null
    ELSE LET href == Head(hrefs)
         IN  IF /\ Truthy(href)
                /\ ~includes(href.s, kwReviewsIndex)
                /\ includes(href.s, kwReviewsE)
             THEN href ELSE firstReviewLink(Tail(hrefs))

\* The hrefs of the links that match 'a[href*="/Reviews/"],
\* a[data-test="review-tab"]' on the opened page.
ReviewLinkLists ==
    {<<>>, <<Str(hrefIndex)>>, <<Null>>, <<Str(hrefIndex), Str(hrefReviewsE)>>}

\* A plausible slip: an entity whose listing link is missing is skipped.
EnsureReviewsTabSkipping ==
    /\ pc = "resolved"
    /\ \E throws \in BOOLEAN, reviewLinks \in ReviewLinkLists :
          LET onListing == includes(url.s, kwReviews) /\ ~includes(url.s, kwOverview)
              validReviewUrl == firstReviewLink(reviewLinks)
          IN  IF throws
              THEN /\ located' = "searchFailed" /\ pc' = "loop" /\ UNCHANGED url
              ELSE IF onListing
              THEN /\ located' = "listing" /\ pc' = "scrape" /\ UNCHANGED url
              ELSE IF Truthy(validReviewUrl)
              THEN /\ url' = Str(absoluteUrl(validReviewUrl.s))
                   /\ located' = "listing" /\ pc' = "scrape"
              ELSE /\ located' = "stayed" /\ pc' = "loop" /\ UNCHANGED url
    /\ strategy' = "none" /\ links' = NoLinks /\ targetUrl' = Null
    /\ UNCHANGED <<file, saved, ci, i, pageVars, evalVars, sections>>

\* Step E of the loop body: "Ensure we are on the REVIEWS tab".
EnsureReviewsTab ==
    /\ pc = "resolved"
    /\ \E throws \in BOOLEAN, reviewLinks \in ReviewLinkLists :
          LET onListing == includes(url.s, kwReviews) /\ ~includes(url.s, kwOverview)
              validReviewUrl == firstReviewLink(reviewLinks)
          IN  IF throws
              THEN /\ located' = "searchFailed" /\ pc' = "loop" /\ UNCHANGED url
              ELSE IF onListing
              THEN /\ located' = "listing" /\ pc' = "scrape" /\ UNCHANGED url
              ELSE IF Truthy(validReviewUrl)
              THEN /\ url' = Str(absoluteUrl(validReviewUrl.s))
                   /\ located' = "listing" /\ pc' = "scrape"
              ELSE \* "Staying on current page."
                   /\ located' = "stayed" /\ pc' = "scrape" /\ UNCHANGED url
    /\ strategy' = "none" /\ links' = NoLinks /\ targetUrl' = Null
    /\ UNCHANGED <<file, saved, ci, i, pageVars, evalVars, sections>>

(***************************************************************************)
(* The page loop of one entity                                             *)
(***************************************************************************)
\* The end of the loop body's first half, given the result of page.$$eval:
\* "No reviews found" writes debug files only, else the batch is saved.
SaveOrDebug(found) ==
    /\ (Len(store) >= MaxStore) => (Len(found) = 0)
    /\ IF Len(found) = 0
       THEN UNCHANGED <<file, saved>>
       ELSE /\ file' = saveData(file, cleanReviews(Targets[ci], found))
            /\ saved' = Append(saved, cleanReviews(Targets[ci], found))
    /\ pages' = pages + 1
    /\ pc' = "paginate"

\* The body of the page loop up to "Next Page": scroll, expand, extract,
\* then save the records or write the debug files.
ScrapePage ==
    /\ pc = "scrape" /\ i < MAX_PAGES_PER_COMPANY
    /\ \/ \* page.evaluate or page.$$eval throws: nothing catches it
          /\ pc' = "crashed"
          /\ UNCHANGED <<file, saved, pages>>
       \/ \E d \in PageSamples : SaveOrDebug(evalReviews(d))
    /\ UNCHANGED <<entityVars, ctl, ctlPage, lastClick, evalVars, sections>>

\* getAttribute('class') || ""
classList(c) == IF c.cls.isNull THEN <<>> ELSE c.cls.s

\* A plausible slip: only the disabled attribute is looked at.
stopsPaginationAttributeOnly(c) ==
    \/ c.count = 0
    \/ ~c.visible
    \/ c.disabled

\* The tests of "Next Page" that end the page loop.
stopsPagination(c) ==
    \/ c.count = 0
    \/ ~c.visible
    \/ c.disabled
    \/ includes(classList(c), kwDisabled)

\* What the "next" control may look like.
Controls ==
    {NoControl,
     Control(1, FALSE, FALSE, Str(clsNext)),
     Control(1, TRUE, TRUE, Str(clsNext)),
     Control(1, TRUE, FALSE, Str(clsNextDisabled)),
     Control(1, TRUE, FALSE, Str(clsNext)),
     Control(1, TRUE, TRUE, Null)}

\* "Next Page": look at the control, stop or click it.
NextPage ==
    /\ pc = "paginate"
    /\ \E c \in Controls, throwAt \in {"none", "locate", "click"} :
          IF throwAt = "locate"
          THEN \* caught: "Pagination error", break
               /\ pc' = "loop"
               /\ UNCHANGED <<i, ctl, ctlPage, lastClick>>
          ELSE /\ ctl' = c
               /\ ctlPage' = pages
               /\ IF stopsPagination(c) \/ throwAt = "click"
                  THEN /\ pc' = "loop"
                       /\ UNCHANGED <<i, lastClick>>
                  ELSE /\ lastClick' = pages
                       /\ i' = i + 1
                       /\ pc' = IF i + 1 < MAX_PAGES_PER_COMPANY
                                THEN "scrape" ELSE "loop"
    /\ UNCHANGED <<file, saved, ci, located, strategy, links, targetUrl, url,
                   pages, evalVars, sections>>

\* After the last entity: context.close(), "Scraper Finished".
Finish ==
    /\ pc = "loop" /\ ci = NumCompanies
    /\ pc' = "finished"
    /\ UNCHANGED <<file, saved, entityVars, pageVars, evalVars, sections>>

Next ==
    \/ ResetDataFile
    \/ Launch
    \/ Search
    \/ SelectResult
    \/ EnsureReviewsTab
    \/ ScrapePage
    \/ NextPage
    \/ Finish

Spec == Init /\ [][Next]_vars


(***************************************************************************)
(* saveData on its own: two calls on any store content                     *)
(***************************************************************************)
otherRecord ==
    [company |-> TARGET_COMPANIES[2], rating |-> Str(<<"3", ".", "0">>),
     date |-> Null, title |-> Null, job_title |-> Str(<<>>),
     pros |-> Str(kwPros), cons |-> Null, advice |-> Null]

RECURSIVE SeqsUpTo(_, _)
\* The sequences of at most n elements of S.
SeqsUpTo(S, n) ==
    IF n = 0 THEN {<<>>}
    ELSE LET shorter == SeqsUpTo(S, n - 1)
         IN  shorter \cup {Append(q, x) : q \in shorter, x \in S}

\* The arrays the calls are tried on: store contents and batches.
SaveArrays == SeqsUpTo({oldRecord, otherRecord}, MaxStore)

InitSave ==
    /\ pc = "save1"
    /\ \E S \in SaveArrays :
          /\ file \in {FileOf(stringify(S))} \cup (IF S = <<>> THEN {NoFile} ELSE {})
          /\ saved = <<S>>
    /\ ci = 0 /\ i = 0
    /\ located = "none" /\ strategy = "none" /\ links = NoLinks
    /\ targetUrl = Null /\ url = Null
    /\ pages = 0 /\ ctl = NoControl /\ ctlPage = 0 /\ lastClick = 0
    /\ dom = <<>> /\ reviews = <<>> /\ candidates = <<>>
    /\ sections = <<>>

\* saveData(newData) with the first batch.
SaveFirst ==
    /\ pc = "save1"
    /\ \E newData \in SaveArrays :
          /\ file' = saveData(file, newData)
          /\ saved' = Append(saved, newData)
    /\ pc' = "save2"
    /\ UNCHANGED <<entityVars, pageVars, evalVars, sections>>

\* saveData(newData) with the second batch.
SaveSecond ==
    /\ pc = "save2"
    /\ \E newData \in SaveArrays :
          /\ file' = saveData(file, newData)
          /\ saved' = Append(saved, newData)
    /\ pc' = "saved"
    /\ UNCHANGED <<entityVars, pageVars, evalVars, sections>>

NextSave == SaveFirst \/ SaveSecond

SpecSave == InitSave /\ [][NextSave]_vars

(***************************************************************************)
(* Extraction on its own: parseReviewCard and getSection on built cards    *)
(***************************************************************************)
chRating40 == <<"4",".","0"," ">>
chRating59 == <<"5",".","9"," ">>
chStar == <<"S","t","a","r"," ","r","e","v","i","e","w"," ","o","f"," ","a"," ","c","u","r","r","e","n","t"," ","e","m","p","l","o","y","e","e"," ","i","n"," ","f","i","e","l","d"," ","o","p","e","r","a","t","i","o","n","s","\n">>
chSections == <<"P","r","o","s",":"," ","g","o","o","d"," ","p","a","y","."," ","C","o","n","s",":"," ","l","o","n","g"," ","h","o","u","r","s"," ">>
chNoise == <<"(","i","n"," ","1","2","0"," ","r","e","v","i","e","w","s",")">>
chPlain == <<"W","o","r","k","e","d"," ","i","n"," ","t","h","e"," ","C","a","l","g","a","r","y"," ","o","f","f","i","c","e"," ","f","o","r"," ","o","v","e","r"," ","t","h","r","e","e"," ","y","e","a","r","s","."," ">>
txtOverall == <<" ","O","v","e","r","a","l","l"," ">>
txtRating40 == <<"4",".","0">>
txtExample == <<"P","r","o","s"," ","g","o","o","d"," ","p","a","y"," ","C","o","n","s"," ","l","o","n","g"," ","h","o","u","r","s"," ","H","e","l","p","f","u","l"," ","(","3",")">>
tokWord == <<"p","a","y">>

\* The card texts are built from at most MaxChunks of these pieces.
MaxChunks == 3
Chunks == {chRating40, chRating59, chStar, chSections, chNoise, chPlain}

CardTexts == {Flatten(parts) : parts \in SeqsUpTo(Chunks, MaxChunks)}

\* What a card may hold besides its own text: a rating element, a title link.
CardChildren ==
    {<<>>,
     <<Element("span", 1, txtRating40, clsRatingNumber, Null)>>,
     <<Element("span", 1, txtOverall, clsRating, Null)>>,
     <<Element("span", 1, <<>>, clsRatingNumber, Null)>>,
     <<Element("a", 1, txtTitle, <<>>, Str(hrefReview1))>>,
     <<Element("span", 1, txtRating40, clsRatingNumber, Null),
       Element("a", 1, txtTitle, <<>>, Str(hrefReview1))>>}

\* The texts getSection is tried on: at most MaxFine of these tokens, and
\* the example "Pros good pay Cons long hours Helpful (3)".
MaxFine == 4
FineTokens == {kwPros, kwCons, kwAdvice, kwHelpful, tokWord, <<" ">>, <<".">>}
FineTexts ==
    {Flatten(parts) : parts \in SeqsUpTo(FineTokens, MaxFine)} \cup {txtExample}

InitIdle ==
    /\ file = NoFile /\ saved = <<>>
    /\ ci = 0 /\ i = 0
    /\ located = "none" /\ strategy = "none" /\ links = NoLinks
    /\ targetUrl = Null /\ url = Null
    /\ pages = 0 /\ ctl = NoControl /\ ctlPage = 0 /\ lastClick = 0
    /\ reviews = <<>> /\ candidates = <<>>
    /\ sections = <<>>

InitCard ==
    /\ \/ /\ pc = "card"
          /\ \E text \in CardTexts, children \in CardChildren :
                dom = <<Element("li", 0, text, <<>>, Null)>> \o children
       \/ /\ pc = "text"
          /\ \E text \in FineTexts :
                dom = <<Element("li", 0, text, <<>>, Null)>>
    /\ InitIdle

\* candidates.map(parseReviewCard).filter(r => r !== null) on the one card.
ParseCard ==
    /\ pc = "card"
    /\ reviews' = mapParse(dom, <<1>>)
    /\ pc' = "parsed"
    /\ UNCHANGED <<fileVars, entityVars, pageVars, dom, candidates, sections>>

\* The three getSection calls of parseReviewCard on the card's text.
ExtractSections ==
    /\ pc = "text"
    /\ sections' =
          <<getSection(innerText(dom, 1), kwPros, <<kwCons, kwAdvice, kwHelpful>>),
            getSection(innerText(dom, 1), kwCons, <<kwAdvice, kwHelpful>>),
            getSection(innerText(dom, 1), kwAdvice, <<kwHelpful>>)>>
    /\ pc' = "sections"
    /\ UNCHANGED <<fileVars, entityVars, pageVars, evalVars>>

NextCard == ParseCard \/ ExtractSections

SpecCard == InitCard /\ [][NextCard]_vars

(***************************************************************************)
(* Extraction on its own: the fallback candidates of a tree of blocks      *)
(***************************************************************************)
\* The block trees hold at most MaxDivs div elements.
MaxDivs == 3
txtLong == [k \in 1..MAX_FALLBACK_LENGTH |-> "x"]
DivTexts == {<<>>, txtDivReview, txtLong}

\* The proper ancestors of element d, by its chain of parents.
RECURSIVE AncestorsOf(_, _)
AncestorsOf(tree, d) ==
    IF tree[d].parent = 0 THEN {}
    ELSE {tree[d].parent} \cup AncestorsOf(tree, tree[d].parent)

\* Where a new element may hang in tree t: at the top, or under the last
\* element or one of its ancestors.
ParentsFor(t) ==
    IF t = <<>> THEN {0} ELSE {0, Len(t)} \cup AncestorsOf(t, Len(t))

RECURSIVE DivTrees(_)
\* The trees of exactly n div elements in document order.
DivTrees(n) ==
    IF n = 0 THEN {<<>>}
    ELSE UNION {{Append(t, Element("div", q, own, <<>>, Null)) :
                    q \in ParentsFor(t), own \in DivTexts} :
                t \in DivTrees(n - 1)}

InitDom ==
    /\ pc = "dom"
    /\ dom \in UNION {DivTrees(n) : n \in 1..MaxDivs}
    /\ InitIdle

\* The callback of page.$$eval on the tree.
EvalCallback ==
    /\ pc = "dom"
    /\ reviews' = evalReviews(dom)
    /\ candidates' = uniqueDivs(dom)
    /\ pc' = "evaluated"
    /\ UNCHANGED <<fileVars, entityVars, pageVars, dom, sections>>

NextDom == EvalCallback

SpecDom == InitDom /\ [][NextDom]_vars

(***************************************************************************)
(* Properties                                                              *)
(***************************************************************************)
\* q is a prefix of r.
IsPrefix(q, r) == Len(q) <= Len(r) /\ SubSeq(r, 1, Len(q)) = q

\* sub occurs in s.
Occurs(sub, s) ==
    \E k \in 0..(Len(s) - Len(sub)) :
        \A j \in 1..Len(sub) : s[k + j] = sub[j]

\* The retention test stated on a stored record.
Retained(r) ==
    /\ ~r.rating.isNull /\ r.rating.s # <<>>
    /\ \E f \in {r.pros, r.cons, r.title} : ~f.isNull /\ f.s # <<>>

\* C1 (retention invariant): in every reachable state of the run, every
\* record of the persisted store has a non-empty rating and at least one
\* non-empty field among pros, cons and title.
C1_Retention == \A k \in 1..Len(store) : Retained(store[k])

\* C1 witness: the store holds a record kept for its pros and one kept with
\* a title, while a page with a rating-only card has been scraped.
C1_Witness ==
    /\ \E k \in 1..Len(store) : store[k].title.isNull /\ Truthy(store[k].pros)
    /\ \E k \in 1..Len(store) : Truthy(store[k].title)

\* C2 (append round trip): from any store content S, saveData with a batch N
\* and then with a batch M leaves the store equal to S followed by N followed
\* by M: |S| + |N| + |M| elements, order kept, nothing dropped.
C2_AppendRoundTrip ==
    pc = "saved" =>
        LET S == saved[1]
            N == saved[2]
            M == saved[3]
        IN  /\ readStore(file) = S \o N \o M
            /\ Len(readStore(file)) = Len(S) + Len(N) + Len(M)

\* C2 witness: both batches and the initial content are non-empty, and the
\* second batch repeats a record that the store already holds.
C2_Witness ==
    /\ pc = "saved"
    /\ saved[1] # <<>> /\ Len(saved[2]) = 2 /\ saved[3] # <<>>
    /\ saved[3][1] = saved[1][1]

\* The claim's own reading of a control state that ends pagination: missing,
\* invisible, disabled attribute, or a class name containing 'disabled'.
IsEndState(c) ==
    \/ c.count = 0
    \/ ~c.visible
    \/ c.disabled
    \/ (~c.cls.isNull /\ Occurs(kwDisabled, c.cls.s))

\* C3 (pagination termination): at most MAX_PAGES_PER_COMPANY pages are
\* scraped for an entity; once the control is seen missing, invisible or
\* disabled on page k, the page loop has ended with exactly k pages scraped
\* and the control has not been clicked on page k.
C3_PaginationTermination ==
    /\ pages <= MAX_PAGES_PER_COMPANY
    /\ i <= MAX_PAGES_PER_COMPANY
    /\ (ctlPage # 0 /\ IsEndState(ctl)) =>
          /\ pc \notin {"scrape", "paginate"}
          /\ pages = ctlPage
          /\ lastClick < ctlPage

\* C3 witness: the control carries the 'disabled' class on the third page
\* after two clicks, and the loop has ended there.
C3_Witness ==
    /\ pc = "loop" /\ pages = 3 /\ ctlPage = 3 /\ lastClick = 2
    /\ ctl.visible /\ ~ctl.disabled /\ IsEndState(ctl)

\* C4 (failure isolation): every failure raised while an entity is processed
\* is non-fatal: the run ends only normally, after every entity of the list
\* has been attempted.
C4_FailureIsolation ==
    /\ pc # "crashed"
    /\ pc = "finished" => ci = NumCompanies

\* C5 as claimed (locator miss skips the entity): when no search input is
\* found, when no strategy resolves a URL, or when the opened page is not a
\* listing and has no 'Reviews-E' link, no page of the entity is scraped and
\* no record of it is stored.
C5_LocatorMissSkips ==
    located \in {"noInput", "unresolved", "stayed"} =>
        /\ pages = 0
        /\ \A k \in 1..Len(store) : store[k].company # Targets[ci]

\* C5 as amended: the entity is skipped when no search input is found or no
\* strategy resolves a URL; when the opened page is not a listing and has no
\* 'Reviews-E' link the entity is not skipped: the page loop runs on the
\* current page.
C5_LocatorMissAmended ==
    /\ located \in {"noInput", "unresolved"} =>
          /\ pc \in {"loop", "finished"}
          /\ pages = 0
          /\ \A k \in 1..Len(store) : store[k].company # Targets[ci]
    /\ located = "stayed" =>
          \/ pc = "scrape" /\ i = 0
          \/ pc = "crashed"
          \/ pages >= 1

\* C5 witness: the second entity was skipped for want of a result URL after
\* the first one had records stored.
C5_Witness ==
    /\ located = "unresolved" /\ ci = 2 /\ pc = "loop"
    /\ Len(store) > 0

OccursAt(sub, s, k) ==
    /\ k + Len(sub) <= Len(s)
    /\ \A j \in 1..Len(sub) : s[k + j] = sub[j]

\* A rating written as a decimal between 0.0 and 5.0.
IsRatingInRange(s) ==
    \/ Len(s) = 1 /\ s[1] \in {"0", "1", "2", "3", "4", "5"}
    \/ /\ Len(s) = 3 /\ s[2] = "." /\ s[3] \in Digit
       /\ \/ s[1] \in {"0", "1", "2", "3", "4"}
          \/ s[1] = "5" /\ s[3] = "0"

\* C6 (rating range): every record the extraction accepts has a rating that
\* is a decimal value in [0.0, 5.0], whether it came from the rating
\* sub-element or from the leading-digit pattern.
C6_RatingRange ==
    pc = "parsed" =>
        \A k \in 1..Len(reviews) :
            reviews[k].rating.isNull \/ IsRatingInRange(reviews[k].rating.s)

\* The text between the first occurrence of the keyword and the nearest later
\* terminator, or the end of the text.
SectionBody(text, keyword, terminators) ==
    LET first == CHOOSE k \in 0..Len(text) :
                    /\ OccursAt(keyword, text, k)
                    /\ \A m \in 0..(k - 1) : ~OccursAt(keyword, text, m)
        from == first + Len(keyword)
        stops == {k \in from..Len(text) :
                     \E t \in terminators : OccursAt(t, text, k)}
        to == IF stops = {} THEN Len(text)
              ELSE CHOOSE k \in stops : \A m \in stops : k <= m
    IN  SubSeq(text, from + 1, to)

\* r is s without its leading and trailing whitespace.
IsTrimOf(r, s) ==
    \E a, b \in 0..Len(s) :
        /\ a + b <= Len(s)
        /\ r = SubSeq(s, a + 1, Len(s) - b)
        /\ \A k \in 1..a : s[k] \in Whitespace
        /\ \A k \in (Len(s) - b + 1)..Len(s) : s[k] \in Whitespace
        /\ r = <<>> \/ (r[1] \notin Whitespace /\ r[Len(r)] \notin Whitespace)

\* r is s without leading whitespace and without the punctuation and
\* whitespace that end it.
IsTrailingStripOf(r, s) ==
    \E a, b \in 0..Len(s) :
        /\ a + b <= Len(s)
        /\ r = SubSeq(s, a + 1, Len(s) - b)
        /\ \A k \in 1..a : s[k] \in Whitespace
        /\ \A k \in (Len(s) - b + 1)..Len(s) :
              s[k] \in Whitespace \cup {":", "-", "."}
        /\ r = <<>> \/ (/\ r[1] \notin Whitespace
                        /\ r[Len(r)] \notin Whitespace \cup {":", "-", "."})

IsNotSectionPunct(c) == c \notin {":", "-", "."}

SectionCalls ==
    <<[keyword |-> kwPros, terminators |-> {kwCons, kwAdvice, kwHelpful}],
      [keyword |-> kwCons, terminators |-> {kwAdvice, kwHelpful}],
      [keyword |-> kwAdvice, terminators |-> {kwHelpful}]>>

\* C8 (section extraction) as stated: getSection returns the text from just
\* after the first occurrence of the keyword to the nearest later terminator
\* (or the end), whitespace-trimmed and with trailing punctuation removed,
\* and nothing when the keyword is absent.
C8_SectionExtraction ==
    pc = "sections" =>
        \A n \in 1..3 :
            LET text == dom[1].own
                call == SectionCalls[n]
            IN  IF ~Occurs(call.keyword, text) THEN sections[n].isNull
                ELSE /\ ~sections[n].isNull
                     /\ IsTrailingStripOf(sections[n].s,
                           SectionBody(text, call.keyword, call.terminators))

\* C8 (section extraction) as the code has it: getSection returns the text
\* from just after the first occurrence of the keyword to the nearest later
\* terminator (or the end), with every ':', '-' and '.' deleted and then
\* whitespace-trimmed, and nothing when the keyword is absent.
C8_SectionAmended ==
    pc = "sections" =>
        \A n \in 1..3 :
            LET text == dom[1].own
                call == SectionCalls[n]
            IN  IF ~Occurs(call.keyword, text) THEN sections[n].isNull
                ELSE /\ ~sections[n].isNull
                     /\ IsTrimOf(sections[n].s,
                           SelectSeq(SectionBody(text, call.keyword,
                                                 call.terminators),
                                     IsNotSectionPunct))

\* C8 witness: on "Pros good pay Cons long hours Helpful (3)" the sections
\* are "good pay" and "long hours", and there is no advice.
C8_Witness ==
    /\ pc = "sections"
    /\ dom[1].own = txtExample
    /\ sections[1] = Str(<<"g","o","o","d"," ","p","a","y">>)
    /\ sections[2] = Str(<<"l","o","n","g"," ","h","o","u","r","s">>)
    /\ sections[3] = Null

\* The full text of the card of the extraction runs.
CardText == Flatten([k \in 1..Len(dom) |-> dom[k].own])

IsNoise(text) == Occurs(kwNoiseIn, text) /\ Occurs(kwNoiseReviews, text)

HasRatingSignal ==
    \/ Occurs(kwStar, CardText)
    \/ \E k \in 2..Len(dom) :
          \/ dom[k].cls = clsRatingNumber
          \/ dom[k].tag = "span" /\ Occurs(clsRating, dom[k].cls)

\* C10 (rejection invariant): a candidate whose text matches the
\* aggregate-count noise pattern, or is shorter than 50 characters, or has
\* no rating signal, yields no record, whatever else it holds.
C10_Rejection ==
    pc = "parsed" =>
        ((IsNoise(CardText) \/ Len(CardText) < MIN_TEXT_LENGTH
          \/ ~HasRatingSignal) => reviews = <<>>)

\* C10 witness: a card shorter than 50 characters with a rating element and
\* Pros/Cons sections, not noise, was parsed and yielded no record.
C10_Witness ==
    /\ pc = "parsed"
    /\ Len(CardText) < MIN_TEXT_LENGTH
    /\ ~IsNoise(CardText) /\ HasRatingSignal
    /\ Occurs(kwPros, CardText) /\ Occurs(kwCons, CardText)
    /\ \E k \in 2..Len(dom) : dom[k].own = txtRating40
    /\ reviews = <<>>

\* The text of element d and of its descendants.
SubtreeText(d) ==
    Flatten([k \in 1..Len(dom) |->
                 IF k = d \/ d \in AncestorsOf(dom, k)
                 THEN dom[k].own ELSE <<>>])

\* The fallback criteria: both keywords, fewer than 2000 characters.
MatchesFallback(d) ==
    /\ dom[d].tag = "div"
    /\ Occurs(kwPros, SubtreeText(d)) /\ Occurs(kwCons, SubtreeText(d))
    /\ Len(SubtreeText(d)) < MAX_FALLBACK_LENGTH

\* C9 (deduplication of containment): the fallback candidates are exactly
\* the matching elements that have no matching ancestor, each once; so no
\* candidate is a descendant of a matching element, and of a matching parent
\* and a matching nested child only the parent is kept.
C9_Dedup ==
    pc = "evaluated" =>
        /\ {candidates[k] : k \in 1..Len(candidates)} =
              {d \in 1..Len(dom) :
                  /\ MatchesFallback(d)
                  /\ \A a \in AncestorsOf(dom, d) : ~MatchesFallback(a)}
        /\ \A j, k \in 1..Len(candidates) :
              j # k => candidates[j] # candidates[k]

\* C9 witness: a matching parent block holds a matching child block and
\* only the parent is a candidate.
C9_Witness ==
    /\ pc = "evaluated"
    /\ Len(dom) >= 2 /\ dom[2].parent = 1
    /\ MatchesFallback(1) /\ MatchesFallback(2)
    /\ candidates = <<1>>

\* The names of the three result strategies, in priority order.
StrategyNames == <<"exact", "partial", "logo">>

\* The strategies whose locator showed a visible match.
VisibleMatches == {k \in 1..3 : links[k].visible}

\* The visible match of highest priority.
FirstVisible == CHOOSE k \in VisibleMatches : \A m \in VisibleMatches : k <= m

\* C11 (locator strategy order) as stated: the first visible match in the
\* order full-name link, first-token link, image link is the one chosen, a
\* lower-priority strategy is used only when no higher one has a visible
\* match, and the entity is unresolved only when none of the three has a
\* visible match.
C11_StrategyOrder ==
    links # NoLinks =>
        /\ VisibleMatches # {} => strategy = StrategyNames[FirstVisible]
        /\ \A k \in 1..3 :
              strategy = StrategyNames[k] =>
                  /\ links[k].visible
                  /\ \A m \in 1..(k - 1) : ~links[m].visible
        /\ located = "unresolved" => VisibleMatches = {}

\* C11 (locator strategy order) as the code has it: the first visible match
\* in priority order is the one chosen and no other strategy is consulted;
\* the entity is resolved to that match's href when it has a non-empty one,
\* and is unresolved when no strategy has a visible match, when the chosen
\* match has no href, or when evaluating the locators throws.
C11_StrategyOrderAmended ==
    /\ links # NoLinks =>
          /\ \A k \in 1..3 :
                strategy = StrategyNames[k] =>
                    /\ links[k].visible
                    /\ \A m \in 1..(k - 1) : ~links[m].visible
          /\ IF VisibleMatches = {}
             THEN strategy = "none" /\ located = "unresolved" /\ targetUrl = Null
             ELSE LET href == links[FirstVisible].href
                  IN  /\ strategy = StrategyNames[FirstVisible]
                      /\ IF ~href.isNull /\ href.s # <<>>
                         THEN /\ located = "resolved"
                              /\ ~targetUrl.isNull
                              /\ Occurs(href.s, targetUrl.s)
                         ELSE /\ located = "unresolved"
                              /\ targetUrl = href
    /\ strategy = "failed" => (links = NoLinks /\ located = "unresolved")

\* C11 witness: the full-name link is visible but has no href while the
\* first-token link is visible with one; the full-name strategy was chosen
\* and the entity is unresolved.
C11_Witness ==
    /\ links # NoLinks
    /\ links[1].visible /\ links[1].href.isNull
    /\ links[2].visible /\ ~links[2].href.isNull
    /\ strategy = "exact" /\ located = "unresolved" /\ pc = "loop"

\* The place of a company in TARGET_COMPANIES, 0 when it is not listed.
TargetIndex(company) ==
    IF \E k \in 1..Len(TARGET_COMPANIES) : TARGET_COMPANIES[k] = company
    THEN CHOOSE k \in 1..Len(TARGET_COMPANIES) : TARGET_COMPANIES[k] = company
    ELSE 0

\* C12 (entity tagging and grouping): every record of the store carries a
\* company of TARGET_COMPANIES, the records appended by a step carry the
\* entity being processed at that step, and the store is grouped by entity
\* in list order: no record of an entity follows a record of a later one.
C12_TaggingGrouping ==
    /\ [](LET st == store
          IN  /\ \A k \in 1..Len(st) : TargetIndex(st[k].company) > 0
              /\ \A k \in 1..(Len(st) - 1) :
                    TargetIndex(st[k].company) <= TargetIndex(st[k + 1].company))
    /\ [][(pc # "reset" /\ file' # file) =>
             LET after == readStore(file')
             IN  /\ ci' = ci
                 /\ Len(after) > Len(store)
                 /\ \A k \in (Len(store) + 1)..Len(after) :
                       after[k].company = TARGET_COMPANIES[ci]]_vars

\* C12 witness: the store holds a record of the first entity followed by a
\* record of the second, while the second entity is being processed.
C12_Witness ==
    /\ ci = 2 /\ Len(store) = 2
    /\ store[1].company = TARGET_COMPANIES[1]
    /\ store[2].company = TARGET_COMPANIES[2]

=============================================================================
